---- MODULE Spec2Model ----
(***************************************************************************)
(* A model of the STGCN layer library (src/model/layers.py) and of the     *)
(* configuration code of src/main.py.                                      *)
(*                                                                         *)
(* Two levels are modelled.  At the shape level a tensor is its shape      *)
(* [b, c, t, v] (batch, channel, time, vertex) or the error a PyTorch call *)
(* raised; the channel widths are the real ones (64, 16, 128, 144).  At    *)
(* the value level a tensor is a function from indices to integers and the *)
(* layers are small; the transcendental functions are fixed-point tables.  *)
(***************************************************************************)
EXTENDS Integers, Sequences, FiniteSets, TLC

VARIABLES pc, args, blocks, st_blocks, output, xs, mod, x, y

vars == <<pc, args, blocks, st_blocks, output, xs, mod, x, y>>

(***************************************************************************)
(* Bounds of the model.                                                    *)
(***************************************************************************)
MaxHis == 28
MaxKt == 3
MaxBlocks == 2
MaxVertex == 2
MaxBatch == 2
MaxT == 10
MaxHisArg == 10
MaxL == 1
MaxC == 2
MaxVT == 3
MaxSeed == 0
MaxKs == 3
MaxVB == 1
MaxDil == 2
MaxCalls == 2

(***************************************************************************)
(* Program constants.                                                      *)
(***************************************************************************)
AttnWidth == 144
FcnWidth == 64
ZBatch == 1
ZChannel == 64
ZTime == 26
ZVertex == 4
InputChannel == 1
OutChannel == 128
EndChannel == 1

STChannels == <<64, 16, 64>>

KnownActs == {"glu", "gtu", "relu", "leaky_relu", "silu"}
GatedActs == {"glu", "gtu"}
KnownGraphConvs == {"cheb_graph_conv", "graph_conv"}

(***************************************************************************)
(* Shapes.  A shape-level tensor is a record; err = "" means the call      *)
(* returned, any other value names the exception it raised.                *)
(***************************************************************************)
Shape(b, c, t, v) == [err |-> "", b |-> b, c |-> c, t |-> t, v |-> v]

Raise(e) == [err |-> e, b |-> 0, c |-> 0, t |-> 0, v |-> 0]

Ok(s) == s.err = ""

None == [err |-> "none"]

\* Broadcasting of an elementwise binary operation: two sizes are compatible
\* when they are equal or one of them is 1.
BroadcastDim(m, n) == IF m = n THEN m ELSE IF m = 1 THEN n ELSE IF n = 1 THEN m ELSE -1

Broadcast(s1, s2) ==
    LET b == BroadcastDim(s1.b, s2.b)
        c == BroadcastDim(s1.c, s2.c)
        t == BroadcastDim(s1.t, s2.t)
        v == BroadcastDim(s1.v, s2.v)
    IN IF b < 0 \/ c < 0 \/ t < 0 \/ v < 0 THEN Raise("RuntimeError") ELSE Shape(b, c, t, v)

\* nn.Conv2d with kernel (k, 1), stride 1, no padding.
Conv2d_shape(c_in, c_out, k, s) ==
    IF s.c # c_in \/ s.t < k \/ k < 1 THEN Raise("RuntimeError")
    ELSE Shape(s.b, c_out, s.t - (k - 1), s.v)

\* Align.forward on a shape.
Align_shape(c_in, c_out, s) ==
    IF c_in > c_out THEN Conv2d_shape(c_in, c_out, 1, s)
    ELSE IF c_in < c_out THEN Shape(s.b, s.c + (c_out - c_in), s.t, s.v)
    ELSE s

\* x[:, :, k:, :]
SliceTime(s, k) == Shape(s.b, s.c, IF s.t > k THEN s.t - k ELSE 0, s.v)

\* x[:, :n, :, :] and x[:, -n:, :, :] both keep min(n, c) channels (n >= 1).
SliceChannels(s, n) == Shape(s.b, IF s.c < n THEN s.c ELSE n, s.t, s.v)

(***************************************************************************)
(* TemporalConvLayer                                                       *)
(***************************************************************************)
TemporalConvLayer_init(Kt, c_in, c_out, n_vertex, act_func) ==
    [err |-> "", Kt |-> Kt, c_in |-> c_in, c_out |-> c_out, n_vertex |-> n_vertex,
     conv_out |-> IF act_func \in GatedActs THEN 2 * c_out ELSE c_out,
     act_func |-> act_func]

\* Mutant: the causal convolution built with enable_padding=True and the
\* aligned input left untrimmed, so the time length is kept.
TemporalConvLayer_shape_padded(L, s) ==
    LET a == Align_shape(L.c_in, L.c_out, s)
        x_causal_conv == Conv2d_shape(L.c_in, L.conv_out, 1, s)
    IN IF ~Ok(a) THEN a
       ELSE IF ~Ok(x_causal_conv) THEN x_causal_conv
       ELSE IF L.act_func \in KnownActs THEN Broadcast(SliceChannels(x_causal_conv, L.c_out), a)
       ELSE Raise("NotImplementedError")

TemporalConvLayer_shape(L, s) ==
    LET a == Align_shape(L.c_in, L.c_out, s)
        x_in == SliceTime(a, L.Kt - 1)
        x_causal_conv == Conv2d_shape(L.c_in, L.conv_out, L.Kt, s)
        x_p == SliceChannels(x_causal_conv, L.c_out)
        x_q == SliceChannels(x_causal_conv, L.c_out)
        sum == Broadcast(x_p, x_in)
    IN IF ~Ok(a) THEN a
       ELSE IF ~Ok(x_causal_conv) THEN x_causal_conv
       ELSE IF L.act_func \in GatedActs
            THEN (IF ~Ok(sum) THEN sum ELSE Broadcast(sum, x_q))
       ELSE IF L.act_func \in {"relu", "leaky_relu", "silu"}
            THEN Broadcast(x_causal_conv, x_in)
       ELSE Raise("NotImplementedError")

(***************************************************************************)
(* Graph convolutions.  gso_n is the size of the graph operator matrix.    *)
(***************************************************************************)
ChebGraphConv_init(c_in, c_out, Ks, gso_n, bias) ==
    IF Ks < 0 THEN [err |-> "RuntimeError"]
    ELSE [err |-> "", c_in |-> c_in, c_out |-> c_out, Ks |-> Ks, gso_n |-> gso_n, bias |-> bias]

ChebGraphConv_shape(G, s) ==
    IF G.Ks - 1 < 0 THEN Raise("ValueError")
    ELSE IF G.Ks - 1 >= 1 /\ s.v # G.gso_n THEN Raise("RuntimeError")
    ELSE IF s.c # G.c_in THEN Raise("RuntimeError")
    ELSE Shape(s.b, G.c_out, s.t, s.v)

GraphConv_init(c_in, c_out, gso_n, bias) ==
    [err |-> "", c_in |-> c_in, c_out |-> c_out, gso_n |-> gso_n, bias |-> bias]

GraphConv_shape(G, s) ==
    IF s.v # G.gso_n \/ s.c # G.c_in THEN Raise("RuntimeError")
    ELSE Shape(s.b, G.c_out, s.t, s.v)

GraphConvLayer_init(graph_conv_type, c_in, c_out, Ks, gso_n, bias) ==
    LET conv == IF graph_conv_type = "cheb_graph_conv"
                THEN ChebGraphConv_init(c_out, c_out, Ks, gso_n, bias)
                ELSE IF graph_conv_type = "graph_conv"
                THEN GraphConv_init(c_out, c_out, gso_n, bias)
                ELSE None
    IN IF conv.err \notin {"", "none"} THEN [err |-> conv.err]
       ELSE [err |-> "", graph_conv_type |-> graph_conv_type, c_in |-> c_in,
             c_out |-> c_out, Ks |-> Ks, conv |-> conv]

GraphConvLayer_shape(L, s) ==
    LET x_gc_in == Align_shape(L.c_in, L.c_out, s)
        x_gc == IF L.graph_conv_type = "cheb_graph_conv" THEN ChebGraphConv_shape(L.conv, x_gc_in)
                ELSE IF L.graph_conv_type = "graph_conv" THEN GraphConv_shape(L.conv, x_gc_in)
                ELSE Raise("UnboundLocalError")
    IN IF ~Ok(x_gc_in) THEN x_gc_in
       ELSE IF ~Ok(x_gc) THEN x_gc
       ELSE Broadcast(x_gc, x_gc_in)

\* nn.LayerNorm([n_vertex, c]) applied to the tensor permuted to [b, t, v, c].
LayerNorm_shape(n_vertex, c, s) ==
    IF s.v = n_vertex /\ s.c = c THEN s ELSE Raise("RuntimeError")

(***************************************************************************)
(* Attention fusion (use_attn = "STAGCN")                                  *)
(***************************************************************************)
\* nn.MultiheadAttention(hidden_dim, 1): a width that is not positive is refused.
MultiHeadSelfAttention_init(hidden_dim) ==
    IF hidden_dim <= 0 THEN [err |-> "RuntimeError"] ELSE [err |-> "", hidden_dim |-> hidden_dim]

\* nn.Linear: a negative width cannot be allocated.
Linear_init(in_features, out_features) ==
    IF in_features < 0 \/ out_features < 0 THEN [err |-> "RuntimeError"]
    ELSE [err |-> "", in_features |-> in_features, out_features |-> out_features]

\* F.pad(x, (0, 0, 1, 1)): the last axis by (0, 0), the time axis by (1, 1).
PadTime(s) == Shape(s.b, s.c, s.t + 2, s.v)

\* torch.cat([s1, s2, s3], dim=1): every other axis must agree.
Cat3(s1, s2, s3) ==
    IF s1.b = s2.b /\ s2.b = s3.b /\ s1.t = s2.t /\ s2.t = s3.t /\ s1.v = s2.v /\ s2.v = s3.v
    THEN Shape(s1.b, s1.c + s2.c + s3.c, s1.t, s1.v)
    ELSE Raise("RuntimeError")

\* attn_out.permute(0, 2, 1).view(batch_size, -1, embed_dim - 2, num_nodes) on
\* attn_out of shape [batch_size, num_nodes, width].
ViewBack(batch_size, num_nodes, width, embed_dim) ==
    IF embed_dim - 2 <= 0 THEN Raise("RuntimeError")
    ELSE IF width % (embed_dim - 2) # 0 THEN Raise("RuntimeError")
    ELSE Shape(batch_size, width \div (embed_dim - 2), embed_dim - 2, num_nodes)

\* Lines 346-365: pad, concatenate, reshape to [batch, num_nodes, channels*embed_dim],
\* self-attention, fcn, view back.
AttentionFusion_shape(B, tmp1, graph1, s) ==
    LET tmp2 == PadTime(s)
        concat == Cat3(tmp1, graph1, tmp2)
        feat == concat.c * concat.t
    IN IF ~Ok(concat) THEN concat
       ELSE IF feat # B.attn.hidden_dim THEN Raise("RuntimeError")
       ELSE IF B.attn.hidden_dim # B.fcn.in_features THEN Raise("RuntimeError")
       ELSE ViewBack(concat.b, concat.v, B.fcn.out_features, concat.t)

(***************************************************************************)
(* STConvBlock                                                             *)
(***************************************************************************)
\* Mutant: the attention and fcn widths computed from n_his - 2*l.
STConvBlock_init_width(Kt, Ks, n_vertex, last_block_channel, channels, act_func, graph_conv_type, gso_n, bias, n_his, l, use_attn) ==
    LET tmp_conv1 == TemporalConvLayer_init(Kt, last_block_channel, channels[1], n_vertex, act_func)
        graph_conv == GraphConvLayer_init(graph_conv_type, channels[1], channels[2], Ks, gso_n, bias)
        tmp_conv2 == TemporalConvLayer_init(Kt, channels[2], channels[3], n_vertex, act_func)
        w == n_his - 2 * l
        attn == IF use_attn = "STAGCN" THEN MultiHeadSelfAttention_init(AttnWidth * w) ELSE None
        fcn == IF use_attn = "STAGCN" THEN Linear_init(AttnWidth * w, FcnWidth * (w - 2)) ELSE None
    IN IF graph_conv.err # "" THEN [err |-> graph_conv.err]
       ELSE IF attn.err \notin {"", "none"} THEN [err |-> attn.err]
       ELSE IF fcn.err \notin {"", "none"} THEN [err |-> fcn.err]
       ELSE [err |-> "", kind |-> "STConvBlock", Kt |-> Kt, tmp_conv1 |-> tmp_conv1,
             graph_conv |-> graph_conv, tmp_conv2 |-> tmp_conv2, use_attn |-> use_attn,
             attn |-> attn, fcn |-> fcn, n_his |-> n_his, l |-> l,
             n_vertex |-> n_vertex, c2 |-> channels[3]]

STConvBlock_init(Kt, Ks, n_vertex, last_block_channel, channels, act_func, graph_conv_type, gso_n, bias, n_his, l, use_attn) ==
    LET tmp_conv1 == TemporalConvLayer_init(Kt, last_block_channel, channels[1], n_vertex, act_func)
        graph_conv == GraphConvLayer_init(graph_conv_type, channels[1], channels[2], Ks, gso_n, bias)
        tmp_conv2 == TemporalConvLayer_init(Kt, channels[2], channels[3], n_vertex, act_func)
        w == n_his - 2 * (l + 1)
        attn == IF use_attn = "STAGCN" THEN MultiHeadSelfAttention_init(AttnWidth * w) ELSE None
        fcn == IF use_attn = "STAGCN" THEN Linear_init(AttnWidth * w, FcnWidth * (w - 2)) ELSE None
    IN IF graph_conv.err # "" THEN [err |-> graph_conv.err]
       ELSE IF attn.err \notin {"", "none"} THEN [err |-> attn.err]
       ELSE IF fcn.err \notin {"", "none"} THEN [err |-> fcn.err]
       ELSE [err |-> "", kind |-> "STConvBlock", Kt |-> Kt, tmp_conv1 |-> tmp_conv1,
             graph_conv |-> graph_conv, tmp_conv2 |-> tmp_conv2, use_attn |-> use_attn,
             attn |-> attn, fcn |-> fcn, n_his |-> n_his, l |-> l,
             n_vertex |-> n_vertex, c2 |-> channels[3]]

\* Every intermediate tensor of STConvBlock.forward; out is what it returns.
STConvBlock_trace(B, s) ==
    LET tmp1 == TemporalConvLayer_shape(B.tmp_conv1, s)
        graph1 == IF Ok(tmp1) THEN GraphConvLayer_shape(B.graph_conv, tmp1) ELSE tmp1
        t2 == IF Ok(graph1) THEN TemporalConvLayer_shape(B.tmp_conv2, graph1) ELSE graph1
        attn_on == Ok(t2) /\ B.use_attn = "STAGCN"
        fused == IF attn_on THEN AttentionFusion_shape(B, tmp1, graph1, t2) ELSE t2
    IN [tmp1 |-> tmp1, graph1 |-> graph1, t2 |-> t2,
        tmp2 |-> IF attn_on THEN PadTime(t2) ELSE None,
        concat |-> IF attn_on THEN Cat3(tmp1, graph1, PadTime(t2)) ELSE None,
        out |-> IF Ok(fused) THEN LayerNorm_shape(B.n_vertex, B.c2, fused) ELSE fused]

STConvBlock_shape(B, s) == STConvBlock_trace(B, s).out

(***************************************************************************)
(* OutputBlock                                                             *)
(***************************************************************************)
ZeroProbe == Shape(ZBatch, ZChannel, ZTime, ZVertex)

\* Mutant: the constructor without the dry run on the zero tensor.
OutputBlock_init_noprobe(Ko, last_block_channel, channels, end_channel, n_vertex, act_func, bias) ==
    LET tmp_conv1 == TemporalConvLayer_init(Ko, last_block_channel, channels[1], n_vertex, act_func)
    IN IF Len(channels) < 2 THEN [err |-> "IndexError"]
       ELSE [err |-> "", kind |-> "OutputBlock", Ko |-> Ko, tmp_conv1 |-> tmp_conv1,
             c0 |-> channels[1], c1 |-> channels[2], end_channel |-> end_channel,
             n_vertex |-> n_vertex]

OutputBlock_init(Ko, last_block_channel, channels, end_channel, n_vertex, act_func, bias) ==
    LET tmp_conv1 == TemporalConvLayer_init(Ko, last_block_channel, channels[1], n_vertex, act_func)
        z == TemporalConvLayer_shape(tmp_conv1, ZeroProbe)
    IN IF ~Ok(z) THEN [err |-> z.err]
       ELSE IF Len(channels) < 2 THEN [err |-> "IndexError"]
       ELSE [err |-> "", kind |-> "OutputBlock", Ko |-> Ko, tmp_conv1 |-> tmp_conv1,
             c0 |-> channels[1], c1 |-> channels[2], end_channel |-> end_channel,
             n_vertex |-> n_vertex]

OutputBlock_shape(B, s) ==
    LET t1 == TemporalConvLayer_shape(B.tmp_conv1, s)
        ln == IF Ok(t1) THEN LayerNorm_shape(B.n_vertex, B.c0, t1) ELSE t1
    IN IF Ok(ln) THEN Shape(ln.b, B.end_channel, ln.t, ln.v) ELSE ln

(***************************************************************************)
(* The program: get_parameters, data_preparate, the model's construction   *)
(* and one forward pass.                                                   *)
(***************************************************************************)
Frameworks == {"STAGCN", "STGCN"}
ActChoices == {"glu", "gtu"}
KsChoices == {3, 2}

\* main.py line 95
KoOf(n_his, Kt, stblock_num) == n_his - (Kt - 1) * 2 * stblock_num

\* main.py lines 99-107
BlocksOf(Ko, stblock_num) ==
    <<<<InputChannel>>>> \o [l \in 1..stblock_num |-> STChannels]
      \o (IF Ko = 0 THEN <<<<OutChannel>>>>
          ELSE IF Ko > 0 THEN <<<<OutChannel, OutChannel>>>> ELSE <<>>)
      \o <<<<EndChannel>>>>

Last(q) == q[Len(q)]

\* The layer index the model hands to block l for the attention width: the
\* block's own index, or the number of temporal convolutions before it.
LArgs(l) == {l, 2 * l}

get_parameters ==
    /\ pc = "start"
    /\ \E n_his \in 1..MaxHis, Kt \in 1..MaxKt, stblock_num \in 1..MaxBlocks,
          framework \in Frameworks, act_func \in ActChoices, Ks \in KsChoices,
          graph_conv_type \in KnownGraphConvs :
          LET Ko == KoOf(n_his, Kt, stblock_num)
          IN /\ args' = [n_his |-> n_his, Kt |-> Kt, stblock_num |-> stblock_num,
                         framework |-> framework, act_func |-> act_func, Ks |-> Ks,
                         graph_conv_type |-> graph_conv_type, Ko |-> Ko, n_vertex |-> 0]
             /\ blocks' = BlocksOf(Ko, stblock_num)
    /\ pc' = "data"
    /\ UNCHANGED <<st_blocks, output, xs, mod, x, y>>

data_preparate ==
    /\ pc = "data"
    /\ \E n_vertex \in 1..MaxVertex : args' = [args EXCEPT !.n_vertex = n_vertex]
    /\ pc' = "build"
    /\ UNCHANGED <<blocks, st_blocks, output, xs, mod, x, y>>

\* The model appends STConvBlock l (0-based), built from blocks[l] and blocks[l+1].
NewSTConvBlock ==
    /\ pc = "build"
    /\ Len(st_blocks) < args.stblock_num
    /\ LET l == Len(st_blocks)
       IN \E la \in (IF args.framework = "STAGCN" THEN LArgs(l) ELSE {l}) :
            LET B == STConvBlock_init(args.Kt, args.Ks, args.n_vertex, Last(blocks[l + 1]),
                                      blocks[l + 2], args.act_func, args.graph_conv_type,
                                      args.n_vertex, TRUE, args.n_his, la, args.framework)
            IN /\ st_blocks' = Append(st_blocks, B)
               /\ pc' = IF B.err = "" THEN "build" ELSE "error"
    /\ UNCHANGED <<args, blocks, output, xs, mod, x, y>>

\* The model builds OutputBlock(Ko, blocks[-3][-1], blocks[-2], blocks[-1][0], ...).
NewOutputBlock ==
    /\ pc = "build"
    /\ Len(st_blocks) = args.stblock_num
    /\ args.Ko >= 1
    /\ LET n == Len(blocks)
           B == OutputBlock_init(args.Ko, Last(blocks[n - 2]), blocks[n - 1], blocks[n][1],
                                 args.n_vertex, args.act_func, TRUE)
       IN /\ output' = B
          /\ pc' = IF B.err = "" THEN "ready" ELSE "error"
    /\ UNCHANGED <<args, blocks, st_blocks, xs, mod, x, y>>

\* A history length too short for the blocks leaves no OutputBlock to build.
RejectKo ==
    /\ pc = "build"
    /\ Len(st_blocks) = args.stblock_num
    /\ args.Ko < 1
    /\ pc' = "rejected"
    /\ UNCHANGED <<args, blocks, st_blocks, output, xs, mod, x, y>>

\* A batch of history windows [batch, 1, n_his, n_vertex] enters the model.
ModelCall ==
    /\ pc = "ready"
    /\ \E batch \in 1..MaxBatch :
          xs' = <<Shape(batch, InputChannel, args.n_his, args.n_vertex)>>
    /\ pc' = "forward"
    /\ UNCHANGED <<args, blocks, st_blocks, output, mod, x, y>>

STConvBlockForward ==
    /\ pc = "forward"
    /\ Len(xs) <= Len(st_blocks)
    /\ LET r == STConvBlock_shape(st_blocks[Len(xs)], Last(xs))
       IN /\ xs' = Append(xs, r)
          /\ pc' = IF Ok(r) THEN "forward" ELSE "error"
    /\ UNCHANGED <<args, blocks, st_blocks, output, mod, x, y>>

OutputBlockForward ==
    /\ pc = "forward"
    /\ Len(xs) = Len(st_blocks) + 1
    /\ LET r == OutputBlock_shape(output, Last(xs))
       IN /\ xs' = Append(xs, r)
          /\ pc' = IF Ok(r) THEN "done" ELSE "error"
    /\ UNCHANGED <<args, blocks, st_blocks, output, mod, x, y>>

Init ==
    /\ pc = "start"
    /\ args = None
    /\ blocks = <<>>
    /\ st_blocks = <<>>
    /\ output = None
    /\ xs = <<>>
    /\ mod = None
    /\ x = None
    /\ y = None

Next ==
    \/ get_parameters
    \/ data_preparate
    \/ NewSTConvBlock
    \/ NewOutputBlock
    \/ RejectKo
    \/ ModelCall
    \/ STConvBlockForward
    \/ OutputBlockForward

Spec == Init /\ [][Next]_vars

(***************************************************************************)
(* The blocks as a library: one STConvBlock or OutputBlock is constructed  *)
(* with arguments of the caller's choice and called once on a tensor of    *)
(* the caller's choice.  y records every intermediate tensor of the call.  *)
(***************************************************************************)
ChannelChoices == {InputChannel, ZChannel}
UnitActs == {"glu", "relu"}
UnitKs == 3

NewSTConvBlockUnit ==
    /\ pc = "start"
    /\ \E Kt \in 1..MaxKt, n_vertex \in 1..MaxVertex, last_block_channel \in ChannelChoices,
          act_func \in UnitActs, graph_conv_type \in KnownGraphConvs,
          a \in {[use_attn |-> "None", n_his |-> 0, l |-> 0]}
                \cup [use_attn : {"STAGCN"}, n_his : 1..MaxHisArg, l : 0..MaxL] :
          LET B == STConvBlock_init(Kt, UnitKs, n_vertex, last_block_channel, STChannels,
                                    act_func, graph_conv_type, n_vertex, TRUE,
                                    a.n_his, a.l, a.use_attn)
          IN /\ mod' = B
             /\ pc' = IF B.err = "" THEN "built" ELSE "error"
    /\ UNCHANGED <<args, blocks, st_blocks, output, xs, x, y>>

NewOutputBlockUnit ==
    /\ pc = "start"
    /\ \E Ko \in 1..MaxT, n_vertex \in 1..MaxVertex, last_block_channel \in ChannelChoices,
          act_func \in UnitActs :
          LET B == OutputBlock_init(Ko, last_block_channel, <<OutChannel, OutChannel>>,
                                    EndChannel, n_vertex, act_func, TRUE)
          IN /\ mod' = B
             /\ pc' = IF B.err = "" THEN "built" ELSE "error"
    /\ UNCHANGED <<args, blocks, st_blocks, output, xs, x, y>>

UnitInputs == {Shape(b, c, t, v) : b \in 1..MaxBatch, c \in ChannelChoices,
                                   t \in 1..MaxT, v \in 1..MaxVertex}

CallSTConvBlock ==
    /\ pc = "built"
    /\ mod.kind = "STConvBlock"
    /\ \E s \in UnitInputs :
          /\ x' = s
          /\ y' = STConvBlock_trace(mod, s)
    /\ pc' = "called"
    /\ UNCHANGED <<args, blocks, st_blocks, output, xs, mod>>

CallOutputBlock ==
    /\ pc = "built"
    /\ mod.kind = "OutputBlock"
    /\ \E s \in UnitInputs :
          /\ x' = s
          /\ y' = [out |-> OutputBlock_shape(mod, s)]
    /\ pc' = "called"
    /\ UNCHANGED <<args, blocks, st_blocks, output, xs, mod>>

NextBlock ==
    \/ NewSTConvBlockUnit
    \/ NewOutputBlockUnit
    \/ CallSTConvBlock
    \/ CallOutputBlock

SpecBlock == Init /\ [][NextBlock]_vars

(***************************************************************************)
(* The value level.  A tensor is [err, dims, at]: dims its four sizes, at  *)
(* a function from 0-based index tuples to integers.  Weights and inputs   *)
(* are drawn from families of integer tensors indexed by a seed.           *)
(***************************************************************************)
RECURSIVE SumF(_)
SumF(f) ==
    IF DOMAIN f = {} THEN 0
    ELSE LET e == CHOOSE e \in DOMAIN f : TRUE
         IN f[e] + SumF([d \in DOMAIN f \ {e} |-> f[d]])

Idx4(d) == (0..(d[1] - 1)) \X (0..(d[2] - 1)) \X (0..(d[3] - 1)) \X (0..(d[4] - 1))

Tensor(d, at) == [err |-> "", dims |-> d, at |-> at]

Failed(e) == [err |-> e]

ShapeOf(a) == Shape(a.dims[1], a.dims[2], a.dims[3], a.dims[4])

DimsOf(s) == <<s.b, s.c, s.t, s.v>>

RECURSIVE Code(_)
Code(q) == IF q = <<>> THEN 0 ELSE q[1] + 3 * Code(Tail(q))

\* The seed-th member of a family of integer arrays with entries in -2..2.
Gen(seed, salt, i) == (((2 * seed + 3) * (1 + Code(i)) + salt) % 5) - 2

\* 1000 * sigmoid(q) and 1000 * tanh(q), rounded.
Sigmoid(q) ==
    IF q <= -8 THEN 0 ELSE IF q >= 8 THEN 1000
    ELSE <<1, 2, 7, 18, 47, 119, 269, 500, 731, 881, 953, 982, 993, 998, 999>>[q + 8]

Tanh(q) ==
    IF q < 0 THEN 0 - (IF q <= -5 THEN 1000 ELSE <<762, 964, 995, 999>>[0 - q])
    ELSE IF q = 0 THEN 0
    ELSE IF q >= 5 THEN 1000 ELSE <<762, 964, 995, 999>>[q]

\* nn.Conv2d with kernel (k, 1): a cross-correlation along the time axis.
Conv2d_forward(weight, bias, c_in, c_out, k, a) ==
    LET s == Conv2d_shape(c_in, c_out, k, ShapeOf(a))
    IN IF ~Ok(s) THEN Failed(s.err)
       ELSE Tensor(DimsOf(s),
                   [i \in Idx4(DimsOf(s)) |->
                       bias[i[2]] + SumF([j \in (0..(c_in - 1)) \X (0..(k - 1)) |->
                           weight[<<i[2], j[1], j[2]>>] * a.at[<<i[1], j[1], i[3] + j[2], i[4]>>]])])

ConvWeight(seed, salt, c_in, c_out, k) ==
    [i \in (0..(c_out - 1)) \X (0..(c_in - 1)) \X (0..(k - 1)) |-> Gen(seed, salt, i)]

VecWeight(seed, salt, n) == [i \in 0..(n - 1) |-> Gen(seed, salt, <<i>>)]

(***************************************************************************)
(* Align                                                                   *)
(***************************************************************************)
Align_init(c_in, c_out, seed) ==
    [err |-> "", kind |-> "Align", c_in |-> c_in, c_out |-> c_out,
     weight |-> ConvWeight(seed, 1, c_in, c_out, 1), bias |-> VecWeight(seed, 2, c_out)]

\* Mutant: the zero channels are put before the channels of x.
Align_forward_prepend(A, a) ==
    IF A.c_in > A.c_out THEN Conv2d_forward(A.weight, A.bias, A.c_in, A.c_out, 1, a)
    ELSE IF A.c_in < A.c_out
    THEN LET d == <<a.dims[1], a.dims[2] + (A.c_out - A.c_in), a.dims[3], a.dims[4]>>
             pad == A.c_out - A.c_in
         IN Tensor(d, [i \in Idx4(d) |->
                        IF i[2] < pad THEN 0 ELSE a.at[<<i[1], i[2] - pad, i[3], i[4]>>]])
    ELSE a

Align_forward(A, a) ==
    IF A.c_in > A.c_out THEN Conv2d_forward(A.weight, A.bias, A.c_in, A.c_out, 1, a)
    ELSE IF A.c_in < A.c_out
    THEN LET d == <<a.dims[1], a.dims[2] + (A.c_out - A.c_in), a.dims[3], a.dims[4]>>
         IN Tensor(d, [i \in Idx4(d) |-> IF i[2] < a.dims[2] THEN a.at[i] ELSE 0])
    ELSE a

(***************************************************************************)
(* TemporalConvLayer.  The outputs are fixed-point: glu in 1/1000, gtu in  *)
(* 1/1000000, relu in units, leaky_relu in 1/100, silu in 1/1000.          *)
(***************************************************************************)
TemporalConvLayer_new(Kt, c_in, c_out, n_vertex, act_func, seed) ==
    LET L == TemporalConvLayer_init(Kt, c_in, c_out, n_vertex, act_func)
    IN [err |-> "", kind |-> "TemporalConvLayer", Kt |-> Kt, c_in |-> c_in, c_out |-> c_out,
        n_vertex |-> n_vertex, conv_out |-> L.conv_out, act_func |-> act_func,
        align |-> Align_init(c_in, c_out, seed),
        weight |-> ConvWeight(seed, 3, c_in, L.conv_out, Kt),
        bias |-> VecWeight(seed, 4, L.conv_out)]

Relu(z) == IF z > 0 THEN z ELSE 0

LeakyRelu(z) == IF z >= 0 THEN 100 * z ELSE z

Silu(z) == z * Sigmoid(z)

\* Mutant: the aligned input is trimmed at its end, [:, :, :T-(Kt-1), :],
\* instead of at its start.
TemporalConvLayer_forward_untrimmed(L, a) ==
    LET s == TemporalConvLayer_shape(L, ShapeOf(a))
        al == Align_forward(L.align, a)
        x_in(i) == al.at[i]
        x_causal_conv == Conv2d_forward(L.weight, L.bias, L.c_in, L.conv_out, L.Kt, a)
        n_conv == x_causal_conv.dims[2]
        x_p(i) == x_causal_conv.at[i]
        x_q(i) == x_causal_conv.at[<<i[1], (n_conv - L.c_out) + i[2], i[3], i[4]>>]
    IN IF ~Ok(s) THEN Failed(s.err)
       ELSE Tensor(DimsOf(s),
                [i \in Idx4(DimsOf(s)) |->
                    IF L.act_func = "glu" THEN (x_p(i) + x_in(i)) * Sigmoid(x_q(i))
                    ELSE IF L.act_func = "gtu" THEN Tanh(x_p(i) + x_in(i)) * Sigmoid(x_q(i))
                    ELSE IF L.act_func = "relu" THEN Relu(x_p(i) + x_in(i))
                    ELSE IF L.act_func = "leaky_relu" THEN LeakyRelu(x_p(i) + x_in(i))
                    ELSE Silu(x_p(i) + x_in(i))])

TemporalConvLayer_forward(L, a) ==
    LET s == TemporalConvLayer_shape(L, ShapeOf(a))
        al == Align_forward(L.align, a)
        x_in(i) == al.at[<<i[1], i[2], i[3] + (L.Kt - 1), i[4]>>]
        x_causal_conv == Conv2d_forward(L.weight, L.bias, L.c_in, L.conv_out, L.Kt, a)
        n_conv == x_causal_conv.dims[2]
        x_p(i) == x_causal_conv.at[i]
        x_q(i) == x_causal_conv.at[<<i[1], (n_conv - L.c_out) + i[2], i[3], i[4]>>]
    IN IF ~Ok(s) THEN Failed(s.err)
       ELSE Tensor(DimsOf(s),
                [i \in Idx4(DimsOf(s)) |->
                    IF L.act_func = "glu" THEN (x_p(i) + x_in(i)) * Sigmoid(x_q(i))
                    ELSE IF L.act_func = "gtu" THEN Tanh(x_p(i) + x_in(i)) * Sigmoid(x_q(i))
                    ELSE IF L.act_func = "relu" THEN Relu(x_p(i) + x_in(i))
                    ELSE IF L.act_func = "leaky_relu" THEN LeakyRelu(x_p(i) + x_in(i))
                    ELSE Silu(x_p(i) + x_in(i))])

(***************************************************************************)
(* Graph convolutions on values.  A graph operator is [n, at] with at a    *)
(* function on <<row, column>>.                                            *)
(***************************************************************************)
\* torch.permute(a, perm): axis k of the result is axis perm[k] of a (0-based).
Permute(a, perm) ==
    LET d == <<a.dims[perm[1] + 1], a.dims[perm[2] + 1], a.dims[perm[3] + 1], a.dims[perm[4] + 1]>>
        src(i, m) == i[CHOOSE k \in 1..4 : perm[k] + 1 = m]
    IN Tensor(d, [i \in Idx4(d) |-> a.at[<<src(i, 1), src(i, 2), src(i, 3), src(i, 4)>>]])

\* torch.einsum('hi,btij->bthj', gso, a) with every entry of gso scaled by f.
EinsumGso(f, gso, a) ==
    LET d == <<a.dims[1], a.dims[2], gso.n, a.dims[4]>>
    IN Tensor(d, [i \in Idx4(d) |->
                    SumF([v \in 0..(gso.n - 1) |->
                            f * gso.at[<<i[3], v>>] * a.at[<<i[1], i[2], v, i[4]>>]])])

Minus(a1, a2) == Tensor(a1.dims, [i \in Idx4(a1.dims) |-> a1.at[i] - a2.at[i]])

Plus(a1, a2) == Tensor(a1.dims, [i \in Idx4(a1.dims) |-> a1.at[i] + a2.at[i]])

ChebGraphConv_new(c_in, c_out, Ks, gso, bias, seed) ==
    LET G == ChebGraphConv_init(c_in, c_out, Ks, gso.n, bias)
    IN IF G.err # "" THEN G
       ELSE [err |-> "", kind |-> "ChebGraphConv", c_in |-> c_in, c_out |-> c_out, Ks |-> Ks,
             gso_n |-> gso.n, gso |-> gso, has_bias |-> bias,
             weight |-> [i \in (0..(Ks - 1)) \X (0..(c_in - 1)) \X (0..(c_out - 1)) |-> Gen(seed, 5, i)],
             bias |-> VecWeight(seed, 6, c_out)]

\* Mutant: the recurrence without the factor 2.
RECURSIVE ChebLoop_unscaled(_, _, _, _)
ChebLoop_unscaled(gso, x_list, k, Ks) ==
    IF k >= Ks THEN x_list
    ELSE ChebLoop_unscaled(gso, Append(x_list, Minus(EinsumGso(1, gso, x_list[k]), x_list[k - 1])), k + 1, Ks)

\* for k in range(2, self.Ks): x_list.append(einsum(2 * gso, x_list[k-1]) - x_list[k-2])
RECURSIVE ChebLoop(_, _, _, _)
ChebLoop(gso, x_list, k, Ks) ==
    IF k >= Ks THEN x_list
    ELSE ChebLoop(gso, Append(x_list, Minus(EinsumGso(2, gso, x_list[k]), x_list[k - 1])), k + 1, Ks)

\* Mutant: order 1 already applies the graph operator (T0 = L.x).
ChebTerms_shifted(G, xp) ==
    IF G.Ks - 1 = 0 THEN <<IF G.gso.n = xp.dims[3] THEN EinsumGso(1, G.gso, xp) ELSE xp>>
    ELSE IF G.Ks - 1 = 1 THEN <<xp, EinsumGso(1, G.gso, xp)>>
    ELSE ChebLoop(G.gso, <<xp, EinsumGso(1, G.gso, xp)>>, 2, G.Ks)

\* The list of terms x_list that forward stacks (the input already permuted).
ChebTerms(G, xp) ==
    IF G.Ks - 1 = 0 THEN <<xp>>
    ELSE IF G.Ks - 1 = 1 THEN <<xp, EinsumGso(1, G.gso, xp)>>
    ELSE ChebLoop(G.gso, <<xp, EinsumGso(1, G.gso, xp)>>, 2, G.Ks)

\* Returns [out, x_list]; out is channels-last, [batch, time, vertex, c_out].
ChebGraphConv_forward(G, a) ==
    LET s == ChebGraphConv_shape(G, ShapeOf(a))
        xp == Permute(a, <<0, 2, 3, 1>>)
        x_list == ChebTerms(G, xp)
        d == <<xp.dims[1], xp.dims[2], xp.dims[3], G.c_out>>
    IN IF ~Ok(s) THEN [out |-> Failed(s.err), x_list |-> <<>>]
       ELSE [out |-> Tensor(d, [i \in Idx4(d) |->
                        SumF([ki \in (1..Len(x_list)) \X (0..(G.c_in - 1)) |->
                                x_list[ki[1]].at[<<i[1], i[2], i[3], ki[2]>>]
                                    * G.weight[<<ki[1] - 1, ki[2], i[4]>>]])
                        + (IF G.has_bias THEN G.bias[i[4]] ELSE 0)]),
             x_list |-> x_list]

GraphConv_new(c_in, c_out, gso, bias, seed) ==
    [err |-> "", kind |-> "GraphConv", c_in |-> c_in, c_out |-> c_out, gso_n |-> gso.n,
     gso |-> gso, has_bias |-> bias,
     weight |-> [i \in (0..(c_in - 1)) \X (0..(c_out - 1)) |-> Gen(seed, 7, i)],
     bias |-> VecWeight(seed, 8, c_out)]

GraphConv_forward(G, a) ==
    LET s == GraphConv_shape(G, ShapeOf(a))
        xp == Permute(a, <<0, 2, 3, 1>>)
        first_mul == EinsumGso(1, G.gso, xp)
        d == <<xp.dims[1], xp.dims[2], xp.dims[3], G.c_out>>
    IN IF ~Ok(s) THEN Failed(s.err)
       ELSE Tensor(d, [i \in Idx4(d) |->
                        SumF([c \in 0..(G.c_in - 1) |->
                                first_mul.at[<<i[1], i[2], i[3], c>>] * G.weight[<<c, i[4]>>]])
                        + (IF G.has_bias THEN G.bias[i[4]] ELSE 0)])

GraphConvLayer_new(graph_conv_type, c_in, c_out, Ks, gso, bias, seed) ==
    LET conv == IF graph_conv_type = "cheb_graph_conv"
                THEN ChebGraphConv_new(c_out, c_out, Ks, gso, bias, seed)
                ELSE IF graph_conv_type = "graph_conv"
                THEN GraphConv_new(c_out, c_out, gso, bias, seed)
                ELSE None
    IN IF conv.err \notin {"", "none"} THEN [err |-> conv.err]
       ELSE [err |-> "", kind |-> "GraphConvLayer", graph_conv_type |-> graph_conv_type,
             c_in |-> c_in, c_out |-> c_out, Ks |-> Ks, gso |-> gso,
             align |-> Align_init(c_in, c_out, seed), conv |-> conv]

\* Mutant: the residual connection is left out.
GraphConvLayer_forward_noresidual(L, a) ==
    LET s == GraphConvLayer_shape(L, ShapeOf(a))
        x_gc_in == Align_forward(L.align, a)
        x_gc == IF L.graph_conv_type = "cheb_graph_conv"
                THEN ChebGraphConv_forward(L.conv, x_gc_in).out
                ELSE GraphConv_forward(L.conv, x_gc_in)
    IN IF ~Ok(s) THEN Failed(s.err)
       ELSE Permute(x_gc, <<0, 3, 1, 2>>)

GraphConvLayer_forward(L, a) ==
    LET s == GraphConvLayer_shape(L, ShapeOf(a))
        x_gc_in == Align_forward(L.align, a)
        x_gc == IF L.graph_conv_type = "cheb_graph_conv"
                THEN ChebGraphConv_forward(L.conv, x_gc_in).out
                ELSE GraphConv_forward(L.conv, x_gc_in)
    IN IF ~Ok(s) THEN Failed(s.err)
       ELSE Plus(Permute(x_gc, <<0, 3, 1, 2>>), x_gc_in)

(***************************************************************************)
(* The input of self-attention in STConvBlock.forward (lines 346-354), on  *)
(* values.                                                                 *)
(***************************************************************************)
\* Row-major (contiguous) position of index i in an array of sizes d.
RECURSIVE FlatIndex(_, _)
FlatIndex(d, i) ==
    IF d = <<>> THEN 0
    ELSE i[Len(i)] + d[Len(d)] * FlatIndex(SubSeq(d, 1, Len(d) - 1), SubSeq(i, 1, Len(i) - 1))

RECURSIVE Unflatten(_, _)
Unflatten(d, n) ==
    IF d = <<>> THEN <<>>
    ELSE Append(Unflatten(SubSeq(d, 1, Len(d) - 1), n \div d[Len(d)]), n % d[Len(d)])

\* F.pad(a, (0, 0, 1, 1), "constant", 0)
PadTime_forward(a) ==
    LET d == <<a.dims[1], a.dims[2], a.dims[3] + 2, a.dims[4]>>
    IN Tensor(d, [i \in Idx4(d) |->
                    IF i[3] = 0 \/ i[3] = a.dims[3] + 1 THEN 0
                    ELSE a.at[<<i[1], i[2], i[3] - 1, i[4]>>]])

\* torch.cat([a1, a2, a3], dim=1)
Cat3_forward(a1, a2, a3) ==
    LET s == Cat3(ShapeOf(a1), ShapeOf(a2), ShapeOf(a3))
    IN IF ~Ok(s) THEN Failed(s.err)
       ELSE Tensor(DimsOf(s), [i \in Idx4(DimsOf(s)) |->
                IF i[2] < a1.dims[2] THEN a1.at[i]
                ELSE IF i[2] < a1.dims[2] + a2.dims[2]
                THEN a2.at[<<i[1], i[2] - a1.dims[2], i[3], i[4]>>]
                ELSE a3.at[<<i[1], i[2] - a1.dims[2] - a2.dims[2], i[3], i[4]>>]])

\* concat.reshape(batch_size, num_nodes, channels * embed_dim): the elements
\* keep their row-major order.
Reshape3(a, d3) ==
    [err |-> "", dims |-> d3,
     at |-> [i \in (0..(d3[1] - 1)) \X (0..(d3[2] - 1)) \X (0..(d3[3] - 1)) |->
                a.at[Unflatten(a.dims, FlatIndex(d3, i))]]]

\* Returns [concat, attn_in]: the concatenated tensor and what self.attn receives.
AttentionInput(tmp1, graph1, t2) ==
    LET concat == Cat3_forward(tmp1, graph1, PadTime_forward(t2))
    IN IF concat.err # "" THEN [concat |-> concat, attn_in |-> concat]
       ELSE [concat |-> concat,
             attn_in |-> Reshape3(concat, <<concat.dims[1], concat.dims[4],
                                            concat.dims[2] * concat.dims[3]>>)]

(***************************************************************************)
(* The layers as a library, on values: one layer is constructed and called *)
(* once.                                                                   *)
(***************************************************************************)
UnknownAct == "elu"
UnknownGraphConv == "gat_conv"

ZeroGso(n) == [n |-> n, at |-> [i \in (0..(n - 1)) \X (0..(n - 1)) |-> 0]]

GenGso(n, seed) == [n |-> n, at |-> [i \in (0..(n - 1)) \X (0..(n - 1)) |-> Gen(seed, 10, i)]]

Gsos == {ZeroGso(n) : n \in 1..MaxVertex} \cup {GenGso(n, 0) : n \in 1..MaxVertex}

\* The inputs a layer is called with: [bs, c_in, ts, n_vertex] tensors with the
\* layer's c_in channels and a vertex count in vs.
InputTensors(c, vs) ==
    {Tensor(<<b, c, t, v>>, [i \in Idx4(<<b, c, t, v>>) |-> Gen(seed, 0, i)]) :
        b \in 1..MaxVB, t \in 1..MaxVT, v \in vs, seed \in 0..MaxSeed}

\* A tensor whose entries are pairwise different and different from 0.
LabelTensor(d, base) == Tensor(d, [i \in Idx4(d) |-> base + 1 + FlatIndex(d, i)])

Built(m) == IF m.err = "" THEN "built" ELSE "error"

NewAlign ==
    /\ pc = "start"
    /\ \E c_in \in 1..MaxC, c_out \in 1..MaxC, seed \in 0..MaxSeed :
          mod' = Align_init(c_in, c_out, seed)
    /\ pc' = "built"
    /\ UNCHANGED <<args, blocks, st_blocks, output, xs, x, y>>

NewTemporalConvLayer ==
    /\ pc = "start"
    /\ \E Kt \in 1..MaxKt, c_in \in 1..MaxC, c_out \in 1..MaxC,
          act_func \in KnownActs \cup {UnknownAct}, seed \in 0..MaxSeed :
          mod' = TemporalConvLayer_new(Kt, c_in, c_out, MaxVertex, act_func, seed)
    /\ pc' = "built"
    /\ UNCHANGED <<args, blocks, st_blocks, output, xs, x, y>>

NewChebGraphConv ==
    /\ pc = "start"
    /\ \E c_in \in 1..MaxC, c_out \in 1..MaxC, Ks \in (-1)..MaxKs, gso \in Gsos,
          bias \in BOOLEAN, seed \in 0..MaxSeed :
          /\ mod' = ChebGraphConv_new(c_in, c_out, Ks, gso, bias, seed)
          /\ pc' = Built(mod')
    /\ UNCHANGED <<args, blocks, st_blocks, output, xs, x, y>>

NewGraphConvLayer ==
    /\ pc = "start"
    /\ \E graph_conv_type \in KnownGraphConvs \cup {UnknownGraphConv},
          c_in \in 1..MaxC, c_out \in 1..MaxC, Ks \in 1..(MaxKs - 1), gso \in Gsos,
          bias \in BOOLEAN, seed \in 0..MaxSeed :
          /\ mod' = GraphConvLayer_new(graph_conv_type, c_in, c_out, Ks, gso, bias, seed)
          /\ pc' = Built(mod')
    /\ UNCHANGED <<args, blocks, st_blocks, output, xs, x, y>>

CallAlign ==
    /\ pc = "built"
    /\ mod.kind = "Align"
    /\ \E a \in InputTensors(mod.c_in, 1..MaxVertex) :
          /\ x' = a
          /\ y' = Align_forward(mod, a)
    /\ pc' = "called"
    /\ UNCHANGED <<args, blocks, st_blocks, output, xs, mod>>

CallTemporalConvLayer ==
    /\ pc = "built"
    /\ mod.kind = "TemporalConvLayer"
    /\ \E a \in InputTensors(mod.c_in, 1..MaxVertex) :
          /\ x' = a
          /\ y' = TemporalConvLayer_forward(mod, a)
    /\ pc' = "called"
    /\ UNCHANGED <<args, blocks, st_blocks, output, xs, mod>>

CallChebGraphConv ==
    /\ pc = "built"
    /\ mod.kind = "ChebGraphConv"
    /\ \E a \in InputTensors(mod.c_in, {mod.gso.n}) :
          /\ x' = a
          /\ y' = ChebGraphConv_forward(mod, a)
    /\ pc' = "called"
    /\ UNCHANGED <<args, blocks, st_blocks, output, xs, mod>>

CallGraphConvLayer ==
    /\ pc = "built"
    /\ mod.kind = "GraphConvLayer"
    /\ \E a \in InputTensors(mod.c_in, {mod.gso.n}) :
          /\ x' = a
          /\ y' = GraphConvLayer_forward(mod, a)
    /\ pc' = "called"
    /\ UNCHANGED <<args, blocks, st_blocks, output, xs, mod>>

\* The attention path of a block with Kt = 3, from its three intermediate
\* tensors to the input of self.attn.
CallAttentionInput ==
    /\ pc = "start"
    /\ \E b \in 1..MaxVB, c0 \in 1..MaxC, c1 \in 1..MaxC, c2 \in 1..MaxC,
          e \in 1..MaxVT, n \in 1..MaxVertex :
          LET tmp1 == LabelTensor(<<b, c0, e + 2, n>>, 1000)
              graph1 == LabelTensor(<<b, c1, e + 2, n>>, 2000)
              t2 == LabelTensor(<<b, c2, e, n>>, 3000)
          IN /\ x' = [tmp1 |-> tmp1, graph1 |-> graph1, t2 |-> t2]
             /\ y' = AttentionInput(tmp1, graph1, t2)
    /\ mod' = [err |-> "", kind |-> "AttentionInput"]
    /\ pc' = "called"
    /\ UNCHANGED <<args, blocks, st_blocks, output, xs>>

NextLayer ==
    \/ NewAlign
    \/ NewTemporalConvLayer
    \/ NewChebGraphConv
    \/ NewGraphConvLayer
    \/ CallAlign
    \/ CallTemporalConvLayer
    \/ CallChebGraphConv
    \/ CallGraphConvLayer
    \/ CallAttentionInput

SpecLayer == Init /\ [][NextLayer]_vars

(***************************************************************************)
(* Claims checked under Spec (the program).                                *)
(***************************************************************************)
Finished == pc \in {"done", "error"}

\* C1: for every configuration (Kt, n_his, stblock_num) with
\* Ko = n_his - (Kt-1)*2*stblock_num >= 1, building the stblock_num STConvBlocks
\* and OutputBlock(Ko, ...) succeeds and the forward pass on a window of n_his
\* time steps returns a tensor of time length exactly 1.  Stated for the plain
\* blocks (framework STGCN, no attention fusion).
C1_OutputTimeIsOne ==
    (Finished /\ args.framework = "STGCN" /\ args.Ko >= 1)
        => (pc = "done" /\ Ok(Last(xs)) /\ Last(xs).t = 1)

\* What does hold: the same with Ko <= ZTime.
C1_HoldsUpToProbeLength ==
    (Finished /\ args.framework = "STGCN" /\ args.Ko >= 1 /\ args.Ko <= ZTime)
        => (pc = "done" /\ Ok(Last(xs)) /\ Last(xs).t = 1)

(***************************************************************************)
(* Claims checked under SpecBlock (the blocks as a library).               *)
(***************************************************************************)
Returned == pc = "called" /\ Ok(y.out)

\* C2: whenever STConvBlock.forward returns, with attention fusion disabled or
\* enabled and for every Kt >= 1, the output time length is the input time
\* length minus 2*(Kt-1); whenever OutputBlock.forward returns, it is the input
\* time length minus (Ko-1); both leave the batch and vertex sizes unchanged.
C2_TimeShrinks ==
    Returned =>
        /\ (mod.kind = "STConvBlock" => y.out.t = x.t - 2 * (mod.Kt - 1))
        /\ (mod.kind = "OutputBlock" => y.out.t = x.t - (mod.Ko - 1))
        /\ y.out.b = x.b
        /\ y.out.v = x.v

\* C2's case: an attention-fused block has returned from a batch of 2.
C2_Witness ==
    Returned /\ mod.kind = "STConvBlock" /\ mod.use_attn = "STAGCN" /\ x.b = 2 /\ x.v = 2

C2_WitnessOutput ==
    Returned /\ mod.kind = "OutputBlock" /\ mod.Ko > 1 /\ y.out.t > 1

C2_WitnessPlain ==
    Returned /\ mod.kind = "STConvBlock" /\ mod.use_attn = "None" /\ mod.Kt = 2

\* C8: in the attention path, for every Kt, the second temporal gate's output
\* padded by one step on each side is as long as the tensors after the first
\* temporal gate and after the graph convolution, so the concatenation is
\* well formed.
C8_PaddedLengthsAgree ==
    (pc = "called" /\ mod.kind = "STConvBlock" /\ mod.use_attn = "STAGCN" /\ Ok(y.t2))
        => (y.tmp2.t = y.tmp1.t /\ y.tmp2.t = y.graph1.t /\ Ok(y.concat))

\* What does hold: the lengths agree exactly when Kt = 3.
C8_AgreeIffKtIsThree ==
    (pc = "called" /\ mod.kind = "STConvBlock" /\ mod.use_attn = "STAGCN" /\ Ok(y.t2))
        => ((y.tmp2.t = y.tmp1.t /\ y.tmp2.t = y.graph1.t /\ Ok(y.concat)) <=> mod.Kt = 3)

\* An attention-fused block with Kt = 3 and channels [64, 16, 64] was called on
\* an input with its channel and vertex counts.
FusedCall ==
    /\ pc = "called" /\ mod.kind = "STConvBlock" /\ mod.use_attn = "STAGCN" /\ mod.Kt = 3
    /\ x.c = mod.tmp_conv1.c_in /\ x.v = mod.n_vertex

\* C15: for an STConvBlock built with use_attn = "STAGCN", Kt = 3, channels
\* [64, 16, 64] and (n_his, l), forward on an input of time length T returns
\* if and only if T = n_his - 2*l; when it returns, the output has shape
\* [batch, 64, T-4, n_vertex], as without attention.
C15_ReturnsIffLengthMatches ==
    FusedCall =>
        /\ Ok(y.out) <=> x.t = mod.n_his - 2 * mod.l
        /\ Ok(y.out) => y.out = Shape(x.b, 64, x.t - 4, x.v)

\* What does hold: the same with T >= 5.  A block with n_his - 2*l = 4 is
\* constructed (attention width 288, fcn to 0 features) and its forward raises
\* on T = 4, in the second temporal convolution, as it does without attention.
C15_ReturnsIffLengthMatchesAndFits ==
    FusedCall =>
        /\ Ok(y.out) <=> (x.t = mod.n_his - 2 * mod.l /\ x.t >= 5)
        /\ Ok(y.out) =>
              /\ y.out = Shape(x.b, 64, x.t - 4, x.v)
              /\ y.out = STConvBlock_shape([mod EXCEPT !.use_attn = "None"], x)

\* C15's case: a block built with n_his = 8, l = 1 returned from T = 6.
C15_Witness ==
    /\ FusedCall /\ mod.n_his = 8 /\ mod.l = 1 /\ x.t = 6 /\ x.b = 2 /\ x.v = 2
    /\ Ok(y.out)

\* The case the claim leaves out: n_his - 2*l = 4 and T = 4.
C15_WitnessShort ==
    /\ FusedCall /\ mod.n_his - 2 * mod.l = 4 /\ x.t = 4 /\ ~Ok(y.out)

(***************************************************************************)
(* Claims checked under SpecLayer (the layers as a library, on values).    *)
(***************************************************************************)
Called(kind) == pc = "called" /\ mod.kind = kind

\* C3: Align(c_in, c_out).forward(x) on x with c_in channels returns c_out
\* channels and the batch, time and vertex sizes of x; for c_in = c_out it is x;
\* for c_in < c_out the first c_in channels are x and the appended ones are 0;
\* for c_in > c_out it is the 1x1 projection of x.
C3_AlignContract ==
    (Called("Align") /\ x.dims[2] = mod.c_in) =>
        /\ y.err = ""
        /\ y.dims = <<x.dims[1], mod.c_out, x.dims[3], x.dims[4]>>
        /\ (mod.c_in = mod.c_out => y = x)
        /\ (mod.c_in < mod.c_out =>
               \A i \in Idx4(y.dims) : y.at[i] = IF i[2] < mod.c_in THEN x.at[i] ELSE 0)
        /\ (mod.c_in > mod.c_out =>
               \A i \in Idx4(y.dims) :
                   y.at[i] = mod.bias[i[2]]
                             + SumF([c \in 0..(mod.c_in - 1) |->
                                        mod.weight[<<i[2], c, 0>>] * x.at[<<i[1], c, i[3], i[4]>>]]))

\* C3's case: zero channels were appended to an input that is not all zero.
C3_Witness ==
    /\ Called("Align") /\ x.dims[2] = mod.c_in /\ mod.c_in < mod.c_out
    /\ \E i \in Idx4(x.dims) : x.at[i] # 0

\* C4: TemporalConvLayer.forward with glu on [b, c_in, T, v], T >= Kt, returns
\* [b, c_out, T-(Kt-1), v] whose element [b, c, t, v] is (p + x_in) * sigmoid(q)
\* with p the convolution's channel c, q its channel c_out + c (the convolution
\* has 2*c_out channels) and x_in = Align(x)[b, c, t+Kt-1, v]; with gtu it is
\* tanh(p + x_in) * sigmoid(q).
C4_GatedUnit ==
    (Called("TemporalConvLayer") /\ mod.act_func \in GatedActs
        /\ x.dims[2] = mod.c_in /\ x.dims[3] >= mod.Kt) =>
        LET conv == Conv2d_forward(mod.weight, mod.bias, mod.c_in, mod.conv_out, mod.Kt, x)
            al == Align_forward(mod.align, x)
            p(i) == conv.at[i]
            q(i) == conv.at[<<i[1], mod.c_out + i[2], i[3], i[4]>>]
            x_in(i) == al.at[<<i[1], i[2], i[3] + mod.Kt - 1, i[4]>>]
        IN /\ y.err = ""
           /\ conv.dims[2] = 2 * mod.c_out
           /\ y.dims = <<x.dims[1], mod.c_out, x.dims[3] - (mod.Kt - 1), x.dims[4]>>
           /\ \A i \in Idx4(y.dims) :
                 y.at[i] = IF mod.act_func = "glu"
                           THEN (p(i) + x_in(i)) * Sigmoid(q(i))
                           ELSE Tanh(p(i) + x_in(i)) * Sigmoid(q(i))

\* C4's case: a glu layer with Kt > 1 and c_in > c_out returned a tensor that is not all zero.
C4_Witness ==
    /\ Called("TemporalConvLayer") /\ mod.act_func = "glu" /\ mod.Kt > 1
    /\ x.dims[2] = mod.c_in /\ mod.c_in > mod.c_out /\ x.dims[3] > mod.Kt
    /\ \E i \in Idx4(y.dims) : y.at[i] # 0

\* The Chebyshev terms written out: x read channels-last, L applied over the vertex axis.
RefLx(gso, a) ==
    [i \in Idx4(a.dims) |-> SumF([v \in 0..(gso.n - 1) |-> gso.at[<<i[3], v>>] * a.at[<<i[1], i[2], v, i[4]>>]])]

\* C5: ChebGraphConv.forward with Ks >= 1 builds exactly Ks terms, T0 = x,
\* T1 = L.x, Tk = 2.L.T(k-1) - T(k-2) for 2 <= k <= Ks-1, and its output at
\* [b, t, h, j] is the sum over k and input channel i of Tk[b,t,h,i] * W[k,i,j],
\* plus bias[j] when bias is enabled.
C5_ChebyshevTerms ==
    (Called("ChebGraphConv") /\ mod.Ks >= 1 /\ x.dims[2] = mod.c_in
        /\ (mod.Ks >= 2 => x.dims[4] = mod.gso.n)) =>
        LET T == y.x_list
            d == <<x.dims[1], x.dims[3], x.dims[4]>>
        IN /\ y.out.err = ""
           /\ Len(T) = mod.Ks
           /\ T[1].dims = <<d[1], d[2], d[3], mod.c_in>>
           /\ \A i \in Idx4(T[1].dims) : T[1].at[i] = x.at[<<i[1], i[4], i[2], i[3]>>]
           /\ (mod.Ks >= 2 => T[2].at = RefLx(mod.gso, T[1]))
           /\ \A k \in 3..mod.Ks :
                 \A i \in Idx4(T[1].dims) :
                     T[k].at[i] = 2 * RefLx(mod.gso, T[k - 1])[i] - T[k - 2].at[i]
           /\ y.out.dims = <<d[1], d[2], d[3], mod.c_out>>
           /\ \A i \in Idx4(y.out.dims) :
                 y.out.at[i] =
                     SumF([k \in 1..mod.Ks |->
                             SumF([c \in 0..(mod.c_in - 1) |->
                                     T[k].at[<<i[1], i[2], i[3], c>>] * mod.weight[<<k - 1, c, i[4]>>]])])
                     + (IF mod.has_bias THEN mod.bias[i[4]] ELSE 0)

\* C5's case: a convolution of order >= 3 (the recurrence has run) on a
\* nonzero operator returned.
C5_Witness ==
    /\ Called("ChebGraphConv") /\ mod.Ks >= 3 /\ mod.gso.n = 2 /\ mod.gso # ZeroGso(2)
    /\ y.out.err = "" /\ mod.has_bias
    /\ \E i \in Idx4(y.x_list[3].dims) : y.x_list[3].at[i] # 0

ZeroOperatorCase ==
    /\ Called("GraphConvLayer") /\ mod.Ks = 2 /\ mod.gso = ZeroGso(mod.gso.n)
    /\ y.err = ""

BiasAt(G, j) == IF G.has_bias THEN G.bias[j] ELSE 0

\* C6: with an all-zero graph operator and Chebyshev order K = 2,
\* GraphConvLayer.forward(x) equals Align(x) plus the bias and nothing else.
C6_OnlyAlignAndBias ==
    (ZeroOperatorCase /\ mod.graph_conv_type = "cheb_graph_conv") =>
        LET al == Align_forward(mod.align, x)
        IN \A i \in Idx4(y.dims) : y.at[i] = al.at[i] + BiasAt(mod.conv, i[2])

\* C6 as amended: it equals Align(x) plus the order-0 term Align(x).W[0] (a
\* linear map of the channels of the same vertex) plus the bias; W[1] and the
\* other vertices do not contribute.
C6_AlignOrderZeroAndBias ==
    (ZeroOperatorCase /\ mod.graph_conv_type = "cheb_graph_conv") =>
        LET al == Align_forward(mod.align, x)
        IN \A i \in Idx4(y.dims) :
              y.at[i] = al.at[i]
                        + SumF([c \in 0..(mod.c_out - 1) |->
                                  al.at[<<i[1], c, i[3], i[4]>>] * mod.conv.weight[<<0, c, i[2]>>]])
                        + BiasAt(mod.conv, i[2])

\* C6's case: the order-0 term is not zero somewhere.
C6_Witness ==
    /\ ZeroOperatorCase /\ mod.graph_conv_type = "cheb_graph_conv" /\ mod.gso.n = 2
    /\ LET al == Align_forward(mod.align, x)
       IN \E i \in Idx4(y.dims) : y.at[i] # al.at[i] + BiasAt(mod.conv, i[2])

\* How often value w occurs in function f.
Count(f, w) == Cardinality({i \in DOMAIN f : f[i] = w})

\* C7: the feature vector handed to self-attention at sequence position n of
\* batch element b consists of exactly the entries concat[b, c, t, n] over all
\* channels c and time steps t: the data of vertex n and of no other vertex.
C7_OneVertexPerPosition ==
    (Called("AttentionInput") /\ y.attn_in.err = "") =>
        LET cc == y.concat
            ai == y.attn_in
        IN \A b \in 0..(cc.dims[1] - 1), n \in 0..(cc.dims[4] - 1) :
              LET feature == [k \in 0..(ai.dims[3] - 1) |-> ai.at[<<b, n, k>>]]
                  vertex == [ct \in (0..(cc.dims[2] - 1)) \X (0..(cc.dims[3] - 1)) |->
                                cc.at[<<b, ct[1], ct[2], n>>]]
              IN \A w \in {feature[k] : k \in DOMAIN feature} \cup {vertex[ct] : ct \in DOMAIN vertex} :
                    Count(feature, w) = Count(vertex, w)

\* What does hold: position n holds the n-th run of channels*embed_dim
\* consecutive elements of concat[b] in row-major order.
C7_RowMajorRuns ==
    (Called("AttentionInput") /\ y.attn_in.err = "") =>
        LET cc == y.concat
            ai == y.attn_in
            E == cc.dims[3]
            N == cc.dims[4]
        IN \A i \in DOMAIN ai.at :
              LET f == i[2] * ai.dims[3] + i[3]
              IN ai.at[i] = cc.at[<<i[1], f \div (E * N), (f \div N) % E, f % N>>]

Constructed == pc \in {"built", "called"}

\* C9: constructing TemporalConvLayer with an activation name outside
\* {glu, gtu, relu, leaky_relu, silu}, or GraphConvLayer with a type outside
\* {cheb_graph_conv, graph_conv}, fails in the constructor: no layer object
\* carrying an unknown name exists.
C9_UnknownNameFailsConstruction ==
    Constructed =>
        /\ (mod.kind = "TemporalConvLayer" => mod.act_func \in KnownActs)
        /\ (mod.kind = "GraphConvLayer" => mod.graph_conv_type \in KnownGraphConvs)

\* What does hold: such a layer is constructed, and every call of it raises.
C9_UnknownNameFailsForward ==
    /\ (Called("TemporalConvLayer") /\ mod.act_func \notin KnownActs) => y.err # ""
    /\ (Called("GraphConvLayer") /\ mod.graph_conv_type \notin KnownGraphConvs) => y.err # ""

\* C10: a Chebyshev order K <= 0, K = 0 included, is rejected when
\* ChebGraphConv is constructed, not on the first forward call.
C10_NonPositiveOrderFailsConstruction ==
    (Constructed /\ mod.kind = "ChebGraphConv") => mod.Ks >= 1

\* What does hold: K < 0 fails in the constructor, K = 0 is constructed and
\* every forward call raises ValueError.
C10_ZeroOrderFailsForward ==
    /\ (Constructed /\ mod.kind = "ChebGraphConv") => mod.Ks >= 0
    /\ (Called("ChebGraphConv") /\ mod.Ks = 0) => y.out.err = "ValueError"

\* The same convolution holding another graph operator: same weight and bias.
WithGso(G, gso) == [G EXCEPT !.gso = gso, !.gso_n = gso.n]

\* C11: ChebGraphConv with Ks = 1 does not depend on the graph operator: with
\* any other operator matrix in place of its own, and the same weight, bias
\* and input, forward returns the same output; and the output at
\* [b, t, h, j] is the sum over the input channels i of x[b, i, t, h] * W[0, i, j]
\* plus bias[j]: it reads vertex h of the input only.
C11_OrderOneIgnoresOperator ==
    (Called("ChebGraphConv") /\ mod.Ks = 1) =>
        /\ y.out.err = ""
        /\ \A gso \in Gsos : ChebGraphConv_forward(WithGso(mod, gso), x).out = y.out
        /\ y.out.dims = <<x.dims[1], x.dims[3], x.dims[4], mod.c_out>>
        /\ \A i \in Idx4(y.out.dims) :
              y.out.at[i] =
                  SumF([c \in 0..(mod.c_in - 1) |->
                          x.at[<<i[1], c, i[2], i[3]>>] * mod.weight[<<0, c, i[4]>>]])
                  + BiasAt(mod, i[4])

\* C11's case: an order-1 convolution on two vertices, holding a nonzero
\* operator, returned an output that is not zero everywhere.
C11_Witness ==
    /\ Called("ChebGraphConv") /\ mod.Ks = 1 /\ mod.gso.n = 2 /\ mod.gso # ZeroGso(2)
    /\ x.dims[4] = 2 /\ y.out.err = ""
    /\ \E i \in Idx4(y.out.dims) : y.out.at[i] # 0

(***************************************************************************)
(* CausalConv2d and CausalConv1d on values, with enable_padding and        *)
(* dilation as constructor arguments.  One convolution is constructed and  *)
(* called once.                                                            *)
(***************************************************************************)
Idx3(d) == (0..(d[1] - 1)) \X (0..(d[2] - 1)) \X (0..(d[3] - 1))

\* self.__padding of CausalConv2d: a list when enable_padding, else the int 0.
\* v holds the entries (time axis, vertex axis).
PaddingList(kernel_size, dilation) ==
    [list |-> TRUE, v |-> [i \in 1..2 |-> (kernel_size[i] - 1) * dilation[i]]]

PaddingInt(n) == [list |-> FALSE, v |-> <<n, n>>]

\* self.__padding != 0: a list never equals 0.
PaddingNotZero(padding) == padding.list \/ padding.v[1] # 0

CausalConv2d_new(in_channels, out_channels, Kt, enable_padding, dilation, seed) ==
    LET kernel_size == <<Kt, 1>>
        dil == <<dilation, dilation>>
        padding == IF enable_padding THEN PaddingList(kernel_size, dil) ELSE PaddingInt(0)
    IN [err |-> "", kind |-> "CausalConv2d", in_channels |-> in_channels,
        out_channels |-> out_channels, kernel_size |-> kernel_size, dilation |-> dil,
        enable_padding |-> enable_padding, padding |-> padding, left_padding |-> padding.v,
        weight |-> ConvWeight(seed, 11, in_channels, out_channels, Kt),
        bias |-> VecWeight(seed, 12, out_channels)]

CausalConv1d_new(in_channels, out_channels, kernel_size, enable_padding, dilation, seed) ==
    [err |-> "", kind |-> "CausalConv1d", in_channels |-> in_channels,
     out_channels |-> out_channels, kernel_size |-> kernel_size, dilation |-> dilation,
     enable_padding |-> enable_padding,
     padding |-> IF enable_padding THEN (kernel_size - 1) * dilation ELSE 0,
     weight |-> ConvWeight(seed, 13, in_channels, out_channels, kernel_size),
     bias |-> VecWeight(seed, 14, out_channels)]

\* F.pad(a, (left_v, 0, left_t, 0)): zeros before the start of the vertex axis
\* (the last one) and of the time axis.
PadLeft(a, left_t, left_v) ==
    LET d == <<a.dims[1], a.dims[2], a.dims[3] + left_t, a.dims[4] + left_v>>
    IN Tensor(d, [i \in Idx4(d) |->
                    IF i[3] < left_t \/ i[4] < left_v THEN 0
                    ELSE a.at[<<i[1], i[2], i[3] - left_t, i[4] - left_v>>]])

\* nn.Conv2d.forward with kernel (k, 1), stride 1, padding 0 and a dilation.
Conv2d_dilated(C, a) ==
    LET k == C.kernel_size[1]
        t_out == a.dims[3] - C.dilation[1] * (k - 1)
        v_out == a.dims[4] - C.dilation[2] * (C.kernel_size[2] - 1)
        d == <<a.dims[1], C.out_channels, t_out, v_out>>
    IN IF a.dims[2] # C.in_channels \/ t_out < 1 \/ v_out < 1 THEN Failed("RuntimeError")
       ELSE Tensor(d, [i \in Idx4(d) |->
                C.bias[i[2]] + SumF([j \in (0..(C.in_channels - 1)) \X (0..(k - 1)) |->
                    C.weight[<<i[2], j[1], j[2]>>]
                        * a.at[<<i[1], j[1], i[3] + j[2] * C.dilation[1], i[4]>>]])])

\* Mutant: the zeros are put after the end of the time axis.
CausalConv2d_forward_padright(C, a) ==
    LET p == C.left_padding[1]
        d == <<a.dims[1], a.dims[2], a.dims[3] + p, a.dims[4]>>
        input == IF PaddingNotZero(C.padding)
                 THEN Tensor(d, [i \in Idx4(d) |-> IF i[3] >= a.dims[3] THEN 0 ELSE a.at[i]])
                 ELSE a
    IN Conv2d_dilated(C, input)

CausalConv2d_forward(C, a) ==
    LET input == IF PaddingNotZero(C.padding)
                 THEN PadLeft(a, C.left_padding[1], C.left_padding[2])
                 ELSE a
    IN Conv2d_dilated(C, input)

\* nn.Conv1d.forward on [batch, channels, time] with stride 1, the padding p
\* on both sides of the time axis and a dilation.
Conv1d_padded(C, a) ==
    LET p == C.padding
        T == a.dims[3]
        t_out == T + 2 * p - C.dilation * (C.kernel_size - 1)
        d == <<a.dims[1], C.out_channels, t_out>>
        padded(b, c, j) == IF j < p \/ j >= p + T THEN 0 ELSE a.at[<<b, c, j - p>>]
    IN IF a.dims[2] # C.in_channels \/ t_out < 1 THEN Failed("RuntimeError")
       ELSE Tensor(d, [i \in Idx3(d) |->
                C.bias[i[2]] + SumF([j \in (0..(C.in_channels - 1)) \X (0..(C.kernel_size - 1)) |->
                    C.weight[<<i[2], j[1], j[2]>>] * padded(i[1], j[1], i[3] + j[2] * C.dilation)])])

\* result[:, :, : -n]
DropLast(a, n) ==
    LET d == <<a.dims[1], a.dims[2], IF a.dims[3] > n THEN a.dims[3] - n ELSE 0>>
    IN Tensor(d, [i \in Idx3(d) |-> a.at[i]])

CausalConv1d_forward(C, a) ==
    LET result == Conv1d_padded(C, a)
    IN IF result.err # "" THEN result
       ELSE IF C.padding # 0 THEN DropLast(result, C.padding)
       ELSE result

Inputs3(c) ==
    {Tensor(<<b, c, t>>, [i \in Idx3(<<b, c, t>>) |-> Gen(seed, 0, i)]) :
        b \in 1..MaxVB, t \in 1..MaxVT, seed \in 0..MaxSeed}

NewCausalConv2d ==
    /\ pc = "start"
    /\ \E in_channels \in 1..MaxC, out_channels \in 1..MaxC, Kt \in 1..MaxKt,
          enable_padding \in BOOLEAN, dilation \in 1..MaxDil, seed \in 0..MaxSeed :
          mod' = CausalConv2d_new(in_channels, out_channels, Kt, enable_padding, dilation, seed)
    /\ pc' = "built"
    /\ UNCHANGED <<args, blocks, st_blocks, output, xs, x, y>>

NewCausalConv1d ==
    /\ pc = "start"
    /\ \E in_channels \in 1..MaxC, out_channels \in 1..MaxC, kernel_size \in 1..MaxKt,
          enable_padding \in BOOLEAN, dilation \in 1..MaxDil, seed \in 0..MaxSeed :
          mod' = CausalConv1d_new(in_channels, out_channels, kernel_size, enable_padding, dilation, seed)
    /\ pc' = "built"
    /\ UNCHANGED <<args, blocks, st_blocks, output, xs, x, y>>

CallCausalConv2d ==
    /\ pc = "built"
    /\ mod.kind = "CausalConv2d"
    /\ \E a \in InputTensors(mod.in_channels, 1..MaxVertex) :
          /\ x' = a
          /\ y' = CausalConv2d_forward(mod, a)
    /\ pc' = "called"
    /\ UNCHANGED <<args, blocks, st_blocks, output, xs, mod>>

CallCausalConv1d ==
    /\ pc = "built"
    /\ mod.kind = "CausalConv1d"
    /\ \E a \in Inputs3(mod.in_channels) :
          /\ x' = a
          /\ y' = CausalConv1d_forward(mod, a)
    /\ pc' = "called"
    /\ UNCHANGED <<args, blocks, st_blocks, output, xs, mod>>

NextConv ==
    \/ NewCausalConv2d
    \/ NewCausalConv1d
    \/ CallCausalConv2d
    \/ CallCausalConv1d

SpecConv == Init /\ [][NextConv]_vars

(***************************************************************************)
(* Claims checked under SpecConv.                                          *)
(***************************************************************************)
\* The first n time steps of a.
Prefix4(a, n) ==
    LET d == <<a.dims[1], a.dims[2], n, a.dims[4]>> IN Tensor(d, [i \in Idx4(d) |-> a.at[i]])

Prefix3(a, n) ==
    LET d == <<a.dims[1], a.dims[2], n>> IN Tensor(d, [i \in Idx3(d) |-> a.at[i]])

\* C12: with enable_padding = True and stride 1, CausalConv2d with kernel
\* (Kt, 1) and CausalConv1d with kernel Kt, for every dilation d >= 1, return
\* an output as long in time as the input; the output at time t is the bias
\* plus the weighted sum of the input at times t, t-d, ..., t-(Kt-1)*d, a time
\* before the start read as 0, so it is the same when every input step after
\* t is cut off; the vertex axis keeps its length.
C12_PaddedIsCausal ==
    /\ (Called("CausalConv2d") /\ mod.enable_padding) =>
          LET Kt == mod.kernel_size[1]
              d == mod.dilation[1]
              past(b, c, j, v) == IF j < 0 THEN 0 ELSE x.at[<<b, c, j, v>>]
          IN /\ y.err = ""
             /\ y.dims = <<x.dims[1], mod.out_channels, x.dims[3], x.dims[4]>>
             /\ \A i \in Idx4(y.dims) :
                   /\ y.at[i] = mod.bias[i[2]]
                        + SumF([j \in (0..(mod.in_channels - 1)) \X (0..(Kt - 1)) |->
                              mod.weight[<<i[2], j[1], j[2]>>]
                                  * past(i[1], j[1], i[3] - (Kt - 1 - j[2]) * d, i[4])])
                   /\ CausalConv2d_forward(mod, Prefix4(x, i[3] + 1)).at[i] = y.at[i]
    /\ (Called("CausalConv1d") /\ mod.enable_padding) =>
          LET Kt == mod.kernel_size
              d == mod.dilation
              past(b, c, j) == IF j < 0 THEN 0 ELSE x.at[<<b, c, j>>]
          IN /\ y.err = ""
             /\ y.dims = <<x.dims[1], mod.out_channels, x.dims[3]>>
             /\ \A i \in Idx3(y.dims) :
                   /\ y.at[i] = mod.bias[i[2]]
                        + SumF([j \in (0..(mod.in_channels - 1)) \X (0..(Kt - 1)) |->
                              mod.weight[<<i[2], j[1], j[2]>>]
                                  * past(i[1], j[1], i[3] - (Kt - 1 - j[2]) * d)])
                   /\ CausalConv1d_forward(mod, Prefix3(x, i[3] + 1)).at[i] = y.at[i]

\* C12's case: a padded CausalConv2d with a kernel of 2 or more steps and
\* dilation 2 returned from an input shorter than the kernel's span, two
\* vertices wide.
C12_Witness ==
    /\ Called("CausalConv2d") /\ mod.enable_padding
    /\ mod.kernel_size[1] >= 2 /\ mod.dilation[1] = 2
    /\ x.dims[3] = 2 /\ x.dims[4] = 2 /\ y.err = ""
    /\ \E i \in Idx4(y.dims) : y.at[i] # 0

C12_Witness1d ==
    /\ Called("CausalConv1d") /\ mod.enable_padding
    /\ mod.kernel_size >= 2 /\ mod.dilation = 2
    /\ x.dims[3] = 3 /\ y.err = ""
    /\ \E i \in Idx3(y.dims) : y.at[i] # 0

(***************************************************************************)
(* Storage.  Every forward pass is followed through the tensor storage it  *)
(* reads, allocates and shares.  The heap xs is a sequence of storage      *)
(* contents and a tensor is a position in it.  An operation either returns *)
(* a new tensor (New), returns a tensor that shares the storage of its     *)
(* argument (Alias: x = x, slicing, permute, reshape of a contiguous       *)
(* tensor, view, .to(x)) or writes into its argument (InPlace).  A run is  *)
(* [h, ret, err]: the heap, the tensor returned and the exception raised.  *)
(* Shapes play no part here: an exception only ends the pass earlier.      *)
(***************************************************************************)
GsoLoc == 1

Run(h, ret) == [h |-> h, ret |-> ret, err |-> ""]

New(r, op) ==
    IF r.err # "" THEN r ELSE [h |-> Append(r.h, [op |-> op]), ret |-> Len(r.h) + 1, err |-> ""]

Alias(r, loc) == IF r.err # "" THEN r ELSE [r EXCEPT !.ret = loc]

InPlace(r, loc, op) ==
    IF r.err # "" THEN r ELSE [h |-> [r.h EXCEPT ![loc] = [op |-> op]], ret |-> loc, err |-> ""]

Throw(r, e) == IF r.err # "" THEN r ELSE [r EXCEPT !.err = e]

\* Align.forward: the 1x1 convolution, torch.cat of x and new zeros, or x itself.
Align_heap(c_in, c_out, r, inp) ==
    IF c_in > c_out THEN New(r, "align_conv")
    ELSE IF c_in < c_out THEN New(New(r, "zeros"), "cat")
    ELSE Alias(r, inp)

\* TemporalConvLayer.forward: x_in is a slice of what Align returned, x_p and
\* x_q are slices of the convolution's output; +, sigmoid, tanh, torch.mul and
\* the activations (inplace=False) return new tensors.
TemporalConvLayer_heap(L, r, inp) ==
    LET x_in == Align_heap(L.c_in, L.c_out, r, inp)
        x_causal_conv == New(x_in, "causal_conv")
    IN IF L.act_func = "glu" THEN New(New(New(x_causal_conv, "add"), "sigmoid"), "mul")
       ELSE IF L.act_func = "gtu"
       THEN New(New(New(New(x_causal_conv, "add"), "tanh"), "sigmoid"), "mul")
       ELSE IF L.act_func \in {"relu", "leaky_relu", "silu"}
       THEN New(New(x_causal_conv, "add"), L.act_func)
       ELSE Throw(x_causal_conv, "NotImplementedError")

\* for k in range(2, self.Ks): 2 * self.gso, the einsum and the subtraction
\* each return a new tensor.
RECURSIVE ChebLoop_heap(_, _, _)
ChebLoop_heap(r, k, Ks) ==
    IF k >= Ks THEN r
    ELSE ChebLoop_heap(New(New(New(r, "mul"), "einsum"), "sub"), k + 1, Ks)

ChebGraphConv_heap(G, r, inp) ==
    LET x_list == IF G.Ks - 1 < 0 THEN Throw(r, "ValueError")
                  ELSE IF G.Ks - 1 = 0 THEN Alias(r, inp)
                  ELSE IF G.Ks - 1 = 1 THEN New(r, "einsum")
                  ELSE ChebLoop_heap(New(r, "einsum"), 2, G.Ks)
        cheb_graph_conv == New(New(x_list, "stack"), "einsum")
    IN IF G.bias THEN New(cheb_graph_conv, "add") ELSE cheb_graph_conv

GraphConv_heap(G, r, inp) ==
    LET second_mul == New(New(r, "einsum"), "einsum")
    IN IF G.bias THEN New(second_mul, "add") ELSE second_mul

\* Mutant: the residual is added in place, x_gc_in.add_(x_gc).
GraphConvLayer_heap_add_(L, r, inp) ==
    LET x_gc_in == Align_heap(L.c_in, L.c_out, r, inp)
        x_gc == IF L.graph_conv_type = "cheb_graph_conv"
                THEN ChebGraphConv_heap(L.conv, x_gc_in, x_gc_in.ret)
                ELSE IF L.graph_conv_type = "graph_conv"
                THEN GraphConv_heap(L.conv, x_gc_in, x_gc_in.ret)
                ELSE Throw(x_gc_in, "UnboundLocalError")
    IN InPlace(x_gc, x_gc_in.ret, "add_")

GraphConvLayer_heap(L, r, inp) ==
    LET x_gc_in == Align_heap(L.c_in, L.c_out, r, inp)
        x_gc == IF L.graph_conv_type = "cheb_graph_conv"
                THEN ChebGraphConv_heap(L.conv, x_gc_in, x_gc_in.ret)
                ELSE IF L.graph_conv_type = "graph_conv"
                THEN GraphConv_heap(L.conv, x_gc_in, x_gc_in.ret)
                ELSE Throw(x_gc_in, "UnboundLocalError")
    IN New(x_gc, "add")

\* nn.Dropout (inplace=False): a new tensor in training mode, its input in
\* evaluation mode.
Dropout_heap(training, r) == IF training THEN New(r, "dropout") ELSE r

STConvBlock_heap(B, training, r, inp) ==
    LET tmp1 == TemporalConvLayer_heap(B.tmp_conv1, r, inp)
        graph1 == New(GraphConvLayer_heap(B.graph_conv, tmp1, tmp1.ret), "relu")
        t2 == TemporalConvLayer_heap(B.tmp_conv2, graph1, graph1.ret)
        x1 == IF B.use_attn = "STAGCN"
              THEN New(New(New(New(t2, "pad"), "cat"), "attn"), "fcn")
              ELSE t2
    IN Dropout_heap(training, New(x1, "tc2_ln"))

OutputBlock_heap(B, r, inp) ==
    LET t1 == TemporalConvLayer_heap(B.tmp_conv1, r, inp)
    IN New(New(New(New(t1, "tc1_ln"), "fc1"), "relu"), "fc2")

Forward_heap(M, r, inp) ==
    IF M.kind = "Align" THEN Align_heap(M.layer.c_in, M.layer.c_out, r, inp)
    ELSE IF M.kind = "TemporalConvLayer" THEN TemporalConvLayer_heap(M.layer, r, inp)
    ELSE IF M.kind = "ChebGraphConv" THEN ChebGraphConv_heap(M.layer, r, inp)
    ELSE IF M.kind = "GraphConv" THEN GraphConv_heap(M.layer, r, inp)
    ELSE IF M.kind = "GraphConvLayer" THEN GraphConvLayer_heap(M.layer, r, inp)
    ELSE IF M.kind = "STConvBlock" THEN STConvBlock_heap(M.layer, M.training, r, inp)
    ELSE OutputBlock_heap(M.layer, r, inp)

\* The graph operators and the input tensors a caller supplies.
CallerGsos == {ZeroGso(1), GenGso(1, 0)}
CallerInputs == {LabelTensor(<<1, 1, 1, 1>>, 0), LabelTensor(<<1, 1, 1, 1>>, 10)}

\* The constructor keeps a reference to the caller's gso (self.gso = gso).
Construct(kind, layer, training) ==
    /\ pc = "start"
    /\ \E gso \in CallerGsos :
          /\ xs' = <<gso>>
          /\ args' = [gso |-> gso]
    /\ mod' = [err |-> "", kind |-> kind, layer |-> layer, gso |-> GsoLoc, training |-> training]
    /\ blocks' = <<>>
    /\ pc' = "built"
    /\ UNCHANGED <<st_blocks, output, x, y>>

HeapAlign ==
    \E c_in \in 1..MaxC, c_out \in 1..MaxC :
        Construct("Align", [c_in |-> c_in, c_out |-> c_out], TRUE)

HeapTemporalConvLayer ==
    \E c_in \in 1..MaxC, c_out \in 1..MaxC, act_func \in KnownActs \cup {UnknownAct} :
        Construct("TemporalConvLayer", TemporalConvLayer_init(1, c_in, c_out, 1, act_func), TRUE)

HeapChebGraphConv ==
    \E Ks \in 0..MaxKs, bias \in BOOLEAN :
        Construct("ChebGraphConv", ChebGraphConv_init(1, 1, Ks, 1, bias), TRUE)

HeapGraphConv ==
    \E bias \in BOOLEAN : Construct("GraphConv", GraphConv_init(1, 1, 1, bias), TRUE)

HeapGraphConvLayer ==
    \E graph_conv_type \in KnownGraphConvs \cup {UnknownGraphConv},
       c_in \in 1..MaxC, c_out \in 1..MaxC, Ks \in 1..MaxKs, bias \in BOOLEAN :
        Construct("GraphConvLayer", GraphConvLayer_init(graph_conv_type, c_in, c_out, Ks, 1, bias), TRUE)

HeapSTConvBlock ==
    \E last_block_channel \in ChannelChoices, act_func \in UnitActs,
       graph_conv_type \in KnownGraphConvs, use_attn \in {"None", "STAGCN"},
       training \in BOOLEAN :
        Construct("STConvBlock",
                  STConvBlock_init(3, UnitKs, 1, last_block_channel, STChannels, act_func,
                                   graph_conv_type, 1, TRUE, 5, 0, use_attn),
                  training)

HeapOutputBlock ==
    \E last_block_channel \in ChannelChoices, act_func \in UnitActs :
        Construct("OutputBlock",
                  [tmp_conv1 |-> TemporalConvLayer_init(1, last_block_channel, OutChannel, 1, act_func)],
                  TRUE)

\* One forward call.  The caller passes a tensor of its own, a tensor it has
\* passed before, or what the previous call returned.  blocks records every
\* input with the contents it had when it was passed.
HeapForward ==
    /\ pc \in {"built", "called"}
    /\ Len(blocks) < MaxCalls
    /\ \E h \in {xs} \cup {Append(xs, a) : a \in CallerInputs} :
          \E loc \in IF Len(h) > Len(xs) THEN {Len(h)}
                     ELSE {blocks[k].loc : k \in 1..Len(blocks)}
                          \cup (IF pc = "called" /\ y.err = "" THEN {y.ret} ELSE {}) :
              LET r == Forward_heap(mod, Run(h, loc), loc)
              IN /\ xs' = r.h
                 /\ x' = loc
                 /\ y' = [ret |-> r.ret, err |-> r.err]
                 /\ blocks' = Append(blocks, [loc |-> loc, value |-> h[loc]])
    /\ pc' = "called"
    /\ UNCHANGED <<args, st_blocks, output, mod>>

NextHeap ==
    \/ HeapAlign
    \/ HeapTemporalConvLayer
    \/ HeapChebGraphConv
    \/ HeapGraphConv
    \/ HeapGraphConvLayer
    \/ HeapSTConvBlock
    \/ HeapOutputBlock
    \/ HeapForward

SpecHeap == Init /\ [][NextHeap]_vars

(***************************************************************************)
(* Claims checked under SpecHeap.                                          *)
(***************************************************************************)
\* C13: after any sequence of forward calls of ChebGraphConv, GraphConv,
\* GraphConvLayer, Align, TemporalConvLayer, STConvBlock and OutputBlock, the
\* graph operator the layer holds has the contents it was constructed with,
\* and every tensor that was passed as an input has the contents it had when
\* it was passed.
C13_ForwardWritesNothing ==
    pc \in {"built", "called"} =>
        /\ xs[mod.gso] = args.gso
        /\ \A k \in 1..Len(blocks) : xs[blocks[k].loc] = blocks[k].value

\* C13's case: a GraphConvLayer whose Align returns x itself (c_in = c_out) and
\* whose Chebyshev recurrence has used 2 * gso has been called twice, the
\* second time on what the first call returned.
C13_Witness ==
    /\ pc = "called" /\ mod.kind = "GraphConvLayer"
    /\ mod.layer.graph_conv_type = "cheb_graph_conv"
    /\ mod.layer.c_in = mod.layer.c_out /\ mod.layer.Ks >= 3
    /\ Len(blocks) = 2 /\ blocks[2].loc > blocks[1].loc /\ blocks[2].value \notin CallerInputs
    /\ y.err = ""

(***************************************************************************)
(* OutputBlock as a library, with constructor arguments of the caller's    *)
(* choice: any Ko from -1 up, any activation name, any channel widths.     *)
(* args records the constructor's arguments.                               *)
(***************************************************************************)
ProbeChannels == {InputChannel, STChannels[2], ZChannel, OutChannel}

NewOutputBlockAny ==
    /\ pc = "start"
    /\ \E Ko \in (-1)..MaxHis, last_block_channel \in ProbeChannels, c0 \in ProbeChannels,
          n_vertex \in 1..MaxVertex, act_func \in KnownActs \cup {UnknownAct} :
          LET B == OutputBlock_init(Ko, last_block_channel, <<c0, OutChannel>>,
                                    EndChannel, n_vertex, act_func, TRUE)
          IN /\ mod' = B
             /\ args' = [Ko |-> Ko, last_block_channel |-> last_block_channel, c0 |-> c0,
                         n_vertex |-> n_vertex, act_func |-> act_func]
             /\ pc' = IF B.err = "" THEN "built" ELSE "error"
    /\ UNCHANGED <<blocks, st_blocks, output, xs, x, y>>

\* One forward call on a tensor with the block's vertex count.
CallOutputBlockAny ==
    /\ pc = "built"
    /\ \E s \in {u \in UnitInputs : u.v = mod.n_vertex /\ u.b = 1} :
          /\ x' = s
          /\ y' = [out |-> OutputBlock_shape(mod, s)]
    /\ pc' = "called"
    /\ UNCHANGED <<args, blocks, st_blocks, output, xs, mod>>

NextOutput ==
    \/ NewOutputBlockAny
    \/ CallOutputBlockAny

SpecOutput == Init /\ [][NextOutput]_vars

(***************************************************************************)
(* Claims checked under SpecOutput.                                        *)
(***************************************************************************)
\* C14: OutputBlock's constructor runs its temporal layer on a zero tensor of
\* shape [1, 64, 26, 4]; the construction succeeds exactly when
\* last_block_channel = 64, 1 <= Ko <= 26 and the activation name is a
\* supported one, whatever n_vertex and channels[0] are, and fails for every
\* other last_block_channel, Ko or name.
C14_ProbeDecidesConstruction ==
    /\ ZeroProbe = Shape(1, 64, 26, 4)
    /\ pc \in {"built", "error"} =>
          ((pc = "built") <=> (/\ args.last_block_channel = 64
                               /\ 1 <= args.Ko /\ args.Ko <= 26
                               /\ args.act_func \in KnownActs))
    /\ pc = "error" => mod.err # ""

\* C14's case: with 64 input channels and a supported activation, a block
\* with Ko = 27 on 2 vertices has failed to construct.
C14_Witness ==
    /\ pc = "error" /\ args.last_block_channel = 64 /\ args.Ko = 27
    /\ args.act_func = "glu" /\ args.n_vertex = 2

\* A block with Ko = 26 has been constructed; a block has returned from a call.
C14_WitnessBuilt ==
    /\ pc = "built" /\ args.Ko = 26 /\ args.c0 = OutChannel /\ args.n_vertex = 1

C14_WitnessCalled ==
    /\ pc = "called" /\ args.Ko > 1 /\ Ok(y.out) /\ y.out.t > 1

====
